---- MODULE Spec2Model ----
(***************************************************************************)
(* Model of the yotsu-chat client: the zustand store of                   *)
(* yotsu-chat-frontend/src/store/appStore.ts (auth, presence, channels,   *)
(* members, messages, reactions slices) and the channel window of         *)
(* webapp/app/yotsu-interface.tsx (channel-scroll pagination).            *)
(*                                                                         *)
(* JavaScript runs every handler and every continuation of an async       *)
(* operation to completion, so one action is one handler call or one      *)
(* continuation (the part of an async operation before, or after, its     *)
(* await of the network).  A request in flight is an element of a         *)
(* "pending" variable of the slice.                                       *)
(***************************************************************************)
EXTENDS Integers, Sequences, FiniteSets, TLC

VARIABLES
    \* ---- auth slice (appStore.ts 124-289) and localStorage
    accessToken, isAuthenticated, userId, tempToken, is2FARequired,
    refresh_token, pendingAuth,
    \* ---- presence slice (appStore.ts 307-362)
    onlineUsers, isInitialized,
    \* ---- channels slice (appStore.ts 365-486)
    channels, pendingChannels,
    \* ---- channel members slice (appStore.ts 489-521)
    membersByChannel, pendingMembers,
    \* ---- messages slice (appStore.ts 524-669)
    messagesByChannel, pendingMessages,
    \* ---- reactions slice (appStore.ts 672-736)
    reactionsByMessage, pendingReactions,
    \* ---- what the caller of the last completed call observed
    lastCall,
    \* ---- channel window component state (yotsu-interface.tsx 30-37)
    currentChannel, messages, isLoadingMessages, hasMoreMessages,
    pendingFetch, history

authVars     == <<accessToken, isAuthenticated, userId, tempToken, is2FARequired,
                  refresh_token, pendingAuth>>
presenceVars == <<onlineUsers, isInitialized>>
channelVars  == <<channels, pendingChannels>>
memberVars   == <<membersByChannel, pendingMembers>>
messageVars  == <<messagesByChannel, pendingMessages>>
reactionVars == <<reactionsByMessage, pendingReactions>>
viewVars     == <<currentChannel, messages, isLoadingMessages, hasMoreMessages,
                  pendingFetch, history>>
vars == <<authVars, presenceVars, channelVars, memberVars, messageVars,
          reactionVars, lastCall, viewVars>>

\* A call on one slice leaves the other slices alone.
OnlyAuth      == UNCHANGED <<presenceVars, channelVars, memberVars, messageVars,
                             reactionVars, viewVars>>
OnlyPresence  == UNCHANGED <<authVars, channelVars, memberVars, messageVars,
                             reactionVars, viewVars>>
OnlyChannels  == UNCHANGED <<authVars, presenceVars, memberVars, messageVars,
                             reactionVars, viewVars>>
OnlyMembers   == UNCHANGED <<authVars, presenceVars, channelVars, messageVars,
                             reactionVars, viewVars>>
OnlyMessages  == UNCHANGED <<authVars, presenceVars, channelVars, memberVars,
                             reactionVars, viewVars>>
OnlyReactions == UNCHANGED <<authVars, presenceVars, channelVars, memberVars,
                             messageVars, viewVars>>
OnlyView      == UNCHANGED <<authVars, presenceVars, channelVars, memberVars,
                             messageVars, reactionVars, lastCall>>

(***************************************************************************)
(* Values.                                                                 *)
(***************************************************************************)
\* JavaScript null for a string-valued field, and for a number-valued one.
NULL == "null"
NoUser == 0
NoChannel == 0

\* A JavaScript object used as a map (Record<number, T>) is a function whose
\* DOMAIN is the set of keys present.
EmptyMap == [k \in {} |-> TRUE]
Has(map, k) == k \in DOMAIN map
Put(map, k, v) == [x \in DOMAIN map \cup {k} |-> IF x = k THEN v ELSE map[x]]
Delete(map, k) == [x \in DOMAIN map \ {k} |-> map[x]]

Range(s) == {s[i] : i \in 1..Len(s)}
\* Array.prototype.filter for "keep what differs from x"
Without(s, x) == SelectSeq(s, LAMBDA y : y # x)
\* Array.prototype.splice(i, 1), 1-based
Splice1(s, i) == [j \in 1..(Len(s) - 1) |-> IF j < i THEN s[j] ELSE s[j + 1]]

Returned(op) == [op |-> op, result |-> "returned"]
Threw(op)    == [op |-> op, result |-> "threw"]

(***************************************************************************)
(* AUTH SLICE                                                              *)
(* Each async operation is a Start action (the code up to its await of     *)
(* fetch) and a Response action (the code after it), chosen by what the    *)
(* backend answered.                                                       *)
(***************************************************************************)
AccessTokens == {"FAKE_ACCESS_TOKEN", "NEW_ACCESS_TOKEN"}
RefreshTokens == {"FAKE_REFRESH_TOKEN"}
TempTokens == {"TEMP_TOKEN"}
StoredRefresh == "STORED_REFRESH"
\* user ids the backend reports for the logged-in user
SessionUsers == {5}
\* Bound: requests of the auth slice in flight at once.
MaxPendingAuth == 2

\* logout's state update and localStorage.removeItem (lines 220-228).
ClearSession ==
    /\ accessToken' = NULL
    /\ isAuthenticated' = FALSE
    /\ userId' = NoUser
    /\ tempToken' = NULL
    /\ is2FARequired' = FALSE
    /\ refresh_token' = NULL

KeepSession ==
    UNCHANGED <<accessToken, isAuthenticated, userId, tempToken, is2FARequired,
                refresh_token>>

\* if (data.refresh_token) localStorage.setItem(...)  (lines 169-171, 210-212, 252-254)
StoreRefresh(data_refresh_token) ==
    refresh_token' = IF data_refresh_token # NULL THEN data_refresh_token
                     ELSE refresh_token

\* Mutant of Logout: the persisted refresh token is not removed.
LogoutKeepsRefresh ==
    /\ accessToken' = NULL
    /\ isAuthenticated' = FALSE
    /\ userId' = NoUser
    /\ tempToken' = NULL
    /\ is2FARequired' = FALSE
    /\ UNCHANGED refresh_token
    /\ lastCall' = Returned("logout")
    /\ UNCHANGED pendingAuth

\* logout (lines 219-229).
Logout ==
    /\ ClearSession
    /\ lastCall' = Returned("logout")
    /\ UNCHANGED pendingAuth

\* login up to its await of fetch (lines 133-139).
LoginStart ==
    /\ Cardinality(pendingAuth) < MaxPendingAuth
    /\ [op |-> "login"] \notin pendingAuth
    /\ pendingAuth' = pendingAuth \cup {[op |-> "login"]}
    /\ UNCHANGED <<lastCall>>
    /\ KeepSession

\* Mutant of LoginFailed: a failed login forces a logout, as a failed
\* refreshTokens does.
LoginFailedLogout ==
    /\ ClearSession
    /\ lastCall' = Threw("login")

\* login's catch block (lines 175-178): log and rethrow.
LoginFailed ==
    /\ KeepSession
    /\ lastCall' = Threw("login")

LoginFailures == {"not_ok", "network_error"}

\* login after its await of fetch.  outcome: "not_ok" (response.ok false),
\* "network_error" (fetch rejects), "temp_token", "access_token", or "empty"
\* (an ok response that carries no token).
LoginResponse(outcome, access_token, user_id, data_refresh_token) ==
    /\ [op |-> "login"] \in pendingAuth
    /\ pendingAuth' = pendingAuth \ {[op |-> "login"]}
    /\ CASE outcome \in LoginFailures -> LoginFailed
         [] outcome = "temp_token" ->
               /\ tempToken' \in TempTokens
               /\ is2FARequired' = TRUE
               /\ UNCHANGED <<accessToken, isAuthenticated, userId, refresh_token>>
               /\ lastCall' = Returned("login")
         [] outcome = "access_token" ->
               /\ accessToken' = access_token
               /\ isAuthenticated' = TRUE
               /\ userId' = user_id
               /\ tempToken' = NULL
               /\ is2FARequired' = FALSE
               /\ StoreRefresh(data_refresh_token)
               /\ lastCall' = Returned("login")
         [] OTHER ->
               /\ KeepSession
               /\ lastCall' = Returned("login")

\* verify2FA up to its await of fetch (lines 181-193).
Verify2FAStart ==
    IF tempToken = NULL
    THEN /\ KeepSession
         /\ lastCall' = Threw("verify2FA")
         /\ UNCHANGED pendingAuth
    ELSE /\ Cardinality(pendingAuth) < MaxPendingAuth
         /\ [op |-> "verify2FA"] \notin pendingAuth
         /\ pendingAuth' = pendingAuth \cup {[op |-> "verify2FA"]}
         /\ KeepSession
         /\ UNCHANGED lastCall

\* Mutant of Verify2FAResponse: a rejected code ends the 2FA attempt (the
\* temporary fields are cleared).
Verify2FAResponseClears(ok, access_token, data_refresh_token) ==
    /\ [op |-> "verify2FA"] \in pendingAuth
    /\ pendingAuth' = pendingAuth \ {[op |-> "verify2FA"]}
    /\ IF ok
       THEN /\ accessToken' = access_token
            /\ isAuthenticated' = TRUE
            /\ tempToken' = NULL
            /\ is2FARequired' = FALSE
            /\ UNCHANGED userId
            /\ StoreRefresh(data_refresh_token)
            /\ lastCall' = Returned("verify2FA")
       ELSE /\ tempToken' = NULL
            /\ is2FARequired' = FALSE
            /\ UNCHANGED <<accessToken, isAuthenticated, userId, refresh_token>>
            /\ lastCall' = Threw("verify2FA")

\* verify2FA after its await of fetch (lines 195-216).
Verify2FAResponse(ok, access_token, data_refresh_token) ==
    /\ [op |-> "verify2FA"] \in pendingAuth
    /\ pendingAuth' = pendingAuth \ {[op |-> "verify2FA"]}
    /\ IF ok
       THEN /\ accessToken' = access_token
            /\ isAuthenticated' = TRUE
            /\ tempToken' = NULL
            /\ is2FARequired' = FALSE
            /\ UNCHANGED userId
            /\ StoreRefresh(data_refresh_token)
            /\ lastCall' = Returned("verify2FA")
       ELSE /\ KeepSession
            /\ lastCall' = Threw("verify2FA")

\* refreshTokens up to its await of fetch (lines 231-240); without a stored
\* refresh token the catch block logs out (lines 255-258).
RefreshTokensStart ==
    IF refresh_token = NULL
    THEN /\ ClearSession
         /\ lastCall' = Returned("refreshTokens")
         /\ UNCHANGED pendingAuth
    ELSE /\ Cardinality(pendingAuth) < MaxPendingAuth
         /\ [op |-> "refreshTokens"] \notin pendingAuth
         /\ pendingAuth' = pendingAuth \cup {[op |-> "refreshTokens"]}
         /\ KeepSession
         /\ UNCHANGED lastCall

\* Mutant of RefreshTokensResponse: a rejected refresh leaves the session
\* as it is.
RefreshTokensResponseKeeps(ok, access_token, data_refresh_token) ==
    /\ [op |-> "refreshTokens"] \in pendingAuth
    /\ pendingAuth' = pendingAuth \ {[op |-> "refreshTokens"]}
    /\ lastCall' = Returned("refreshTokens")
    /\ IF ok
       THEN /\ accessToken' = access_token
            /\ isAuthenticated' = TRUE
            /\ UNCHANGED <<userId, tempToken, is2FARequired>>
            /\ StoreRefresh(data_refresh_token)
       ELSE KeepSession

\* refreshTokens after its await of fetch (lines 242-258).
RefreshTokensResponse(ok, access_token, data_refresh_token) ==
    /\ [op |-> "refreshTokens"] \in pendingAuth
    /\ pendingAuth' = pendingAuth \ {[op |-> "refreshTokens"]}
    /\ lastCall' = Returned("refreshTokens")
    /\ IF ok
       THEN /\ accessToken' = access_token
            /\ isAuthenticated' = TRUE
            /\ UNCHANGED <<userId, tempToken, is2FARequired>>
            /\ StoreRefresh(data_refresh_token)
       ELSE ClearSession

\* verifyToken up to its await of fetch (lines 261-268).
VerifyTokenStart ==
    IF accessToken = NULL
    THEN /\ ClearSession
         /\ lastCall' = Returned("verifyToken")
         /\ UNCHANGED pendingAuth
    ELSE /\ Cardinality(pendingAuth) < MaxPendingAuth
         /\ [op |-> "verifyToken"] \notin pendingAuth
         /\ pendingAuth' = pendingAuth \cup {[op |-> "verifyToken"]}
         /\ KeepSession
         /\ UNCHANGED lastCall

\* verifyToken after its await of fetch (lines 270-287).  outcome: "valid",
\* "invalid" (ok, data.valid false) or "not_ok".
VerifyTokenResponse(outcome, user_id) ==
    /\ [op |-> "verifyToken"] \in pendingAuth
    /\ pendingAuth' = pendingAuth \ {[op |-> "verifyToken"]}
    /\ lastCall' = Returned("verifyToken")
    /\ CASE outcome = "valid" ->
               /\ userId' = user_id
               /\ isAuthenticated' = TRUE
               /\ UNCHANGED <<accessToken, tempToken, is2FARequired, refresh_token>>
         [] outcome = "invalid" -> KeepSession
         [] OTHER -> ClearSession

\* useAppStore.getState().setAccessToken(token).  The AuthSlice type names
\* setAccessToken (line 18) but createAuthSlice (lines 124-289) defines no
\* such property, so the call is a call of undefined: it throws a TypeError
\* and writes nothing.
SetAccessToken(token) ==
    /\ KeepSession
    /\ lastCall' = [op |-> "setAccessToken", result |-> "threw", token |-> token]
    /\ UNCHANGED pendingAuth

(***************************************************************************)
(* CHANNELS SLICE                                                          *)
(***************************************************************************)
ChannelIds == {10, 99, 100}
ChannelNames == {"my-chan", "renamed"}
EventUsers == {5, 7}
\* Bound: requests of the channels slice in flight at once.
MaxPendingChannels == 1

ChannelType(id) == IF id = 100 THEN "dm" ELSE IF id = 10 THEN "private" ELSE "public"

\* The Channel objects the backend can return for an id (type Channel, lines
\* 26-31); the name of a dm channel is null.
ServerChannels(id) ==
    IF ChannelType(id) = "dm"
    THEN {[channel_id |-> id, name |-> NULL, type |-> "dm"]}
    ELSE {[channel_id |-> id, name |-> n, type |-> ChannelType(id)] : n \in ChannelNames}

\* The bodies of GET /channels: every array of Channel objects with
\* distinct ids, in any order.
ChannelLists ==
    LET all == UNION {ServerChannels(c) : c \in ChannelIds} IN
    {data \in UNION {[1..n -> all] : n \in 0..Cardinality(ChannelIds)} :
        \A i, j \in 1..Len(data) : i # j => data[i].channel_id # data[j].channel_id}

\* data.reduce((map, ch) => { map[ch.channel_id] = ch; return map }, {})
\* (lines 382-385, 436-439)
RECURSIVE ChannelMap(_)
ChannelMap(data) ==
    IF data = <<>> THEN EmptyMap
    ELSE Put(ChannelMap(SubSeq(data, 1, Len(data) - 1)),
             data[Len(data)].channel_id, data[Len(data)])

SendChannels(req) ==
    /\ Cardinality(pendingChannels) < MaxPendingChannels
    /\ req \notin pendingChannels
    /\ pendingChannels' = pendingChannels \cup {req}

\* Every async operation of the slice starts with
\*   const accessToken = get().accessToken; if (!accessToken) return
\* and then awaits fetch.
ChannelsCall(req) ==
    IF accessToken = NULL
    THEN UNCHANGED pendingChannels
    ELSE SendChannels(req)

ListChannelsStart ==
    /\ ChannelsCall([op |-> "listChannels"])
    /\ UNCHANGED <<channels, lastCall>>

RefreshChannelsStart ==
    /\ ChannelsCall([op |-> "refreshChannels"])
    /\ UNCHANGED <<channels, lastCall>>

\* Mutant of ChannelListResponse: the returned channels are merged into the
\* mapping held.
ChannelListResponseMerges(op, ok, data) ==
    /\ [op |-> op] \in pendingChannels
    /\ pendingChannels' = pendingChannels \ {[op |-> op]}
    /\ channels' = IF ok
                   THEN [c \in DOMAIN channels \cup DOMAIN ChannelMap(data) |->
                           IF Has(ChannelMap(data), c) THEN ChannelMap(data)[c] ELSE channels[c]]
                   ELSE channels
    /\ lastCall' = Returned(op)

\* listChannels / refreshChannels after the await (lines 377-390, 432-444):
\* a failure is logged and swallowed.
ChannelListResponse(op, ok, data) ==
    /\ [op |-> op] \in pendingChannels
    /\ pendingChannels' = pendingChannels \ {[op |-> op]}
    /\ channels' = IF ok THEN ChannelMap(data) ELSE channels
    /\ lastCall' = Returned(op)

CreateChannelStart(name, type) ==
    /\ ChannelsCall([op |-> "createChannel", stage |-> 1, channel_id |-> NoChannel])
    /\ UNCHANGED <<channels, lastCall>>

\* createChannel after its first await (lines 404-411): the POST answered,
\* the details of the new channel are requested.
CreateChannelPosted(ok, channel_id) ==
    /\ [op |-> "createChannel", stage |-> 1, channel_id |-> NoChannel] \in pendingChannels
    /\ pendingChannels' =
         (pendingChannels \ {[op |-> "createChannel", stage |-> 1, channel_id |-> NoChannel]})
           \cup (IF ok THEN {[op |-> "createChannel", stage |-> 2, channel_id |-> channel_id]}
                 ELSE {})
    /\ lastCall' = IF ok THEN lastCall ELSE Returned("createChannel")
    /\ UNCHANGED channels

\* createChannel after its second await (lines 412-422).
CreateChannelDetails(ok, channelDetails) ==
    /\ [op |-> "createChannel", stage |-> 2, channel_id |-> channelDetails.channel_id]
          \in pendingChannels
    /\ pendingChannels' = pendingChannels \
          {[op |-> "createChannel", stage |-> 2, channel_id |-> channelDetails.channel_id]}
    /\ channels' = IF ok THEN Put(channels, channelDetails.channel_id, channelDetails)
                   ELSE channels
    /\ lastCall' = Returned("createChannel")

UpdateChannelStart(channelId) ==
    /\ ChannelsCall([op |-> "updateChannel", channelId |-> channelId])
    /\ UNCHANGED <<channels, lastCall>>

\* updateChannel after the await (lines 458-468).
UpdateChannelResponse(channelId, ok, updated) ==
    /\ [op |-> "updateChannel", channelId |-> channelId] \in pendingChannels
    /\ pendingChannels' = pendingChannels \ {[op |-> "updateChannel", channelId |-> channelId]}
    /\ channels' = IF ok THEN Put(channels, channelId, updated) ELSE channels
    /\ lastCall' = Returned("updateChannel")

\* Mutant of JoinNeedsRefresh: the test that the event is about the
\* session's own user is dropped.
JoinNeedsRefreshAnyUser(channelId, joinedUserId) == ~Has(channels, channelId)

\* The condition of handleJoinEvent (line 475).
JoinNeedsRefresh(channelId, joinedUserId) ==
    joinedUserId = userId /\ ~Has(channels, channelId)

\* The condition of handleLeaveEvent (line 482).
LeaveNeedsRefresh(channelId, leftUserId) ==
    leftUserId = userId /\ Has(channels, channelId)

\* A pushed membership event: the handler calls refreshChannels() or not;
\* lastCall records how many times it did.
MembershipEvent(op, needsRefresh) ==
    /\ IF needsRefresh
       THEN ChannelsCall([op |-> "refreshChannels"])
       ELSE UNCHANGED pendingChannels
    /\ lastCall' = [op |-> op, result |-> "returned",
                    refreshChannels |-> IF needsRefresh THEN 1 ELSE 0]
    /\ UNCHANGED channels

HandleJoinEvent(channelId, joinedUserId) ==
    MembershipEvent("handleJoinEvent", JoinNeedsRefresh(channelId, joinedUserId))

HandleLeaveEvent(channelId, leftUserId) ==
    MembershipEvent("handleLeaveEvent", LeaveNeedsRefresh(channelId, leftUserId))

(***************************************************************************)
(* MESSAGES SLICE                                                          *)
(* The backend is not part of the repository: a response carries any       *)
(* message the backend could hold for the channel; a fetched list holds    *)
(* each message_id at most once, in created_at order.                      *)
(***************************************************************************)
MessageChannels == {98, 99}
MessageIds == {100, 101, 102}
Contents == {"Hello there", "edited"}
\* Bound: entries one channel's list may hold.
MaxMessages == 2
\* Bound: requests of the messages slice in flight at once.
MaxPendingMessages == 1

\* The channel a message was posted to; 102 is the one message of channel 98.
ChannelOf(id) == IF id = 102 THEN 98 ELSE 99

\* type Message (lines 56-66), the fields the store reads or orders by.
\* created_at is the position of the ISO timestamp in time; only message 100
\* is ever edited.
Msg(id, content) ==
    [message_id |-> id, channel_id |-> ChannelOf(id), content |-> content,
     created_at |-> id - 99]
EditedIds == {100}
ServerMessages ==
    {Msg(id, "Hello there") : id \in MessageIds} \cup {Msg(id, "edited") : id \in EditedIds}
MessagesOf(channelId) == {m \in ServerMessages : m.channel_id = channelId}

\* The bodies of GET /messages/channels/{id}.
MessagePages(channelId) ==
    {<<>>}
      \cup {<<m>> : m \in MessagesOf(channelId)}
      \cup {<<m1, m2>> : <<m1, m2>> \in
              {p \in MessagesOf(channelId) \X MessagesOf(channelId) :
                  p[1].message_id < p[2].message_id}}

\* channelMessages.findIndex((m) => m.message_id === id), 1-based, 0 for -1
MessageIndex(list, id) ==
    IF \E i \in 1..Len(list) : list[i].message_id = id
    THEN CHOOSE i \in 1..Len(list) :
            /\ list[i].message_id = id
            /\ \A j \in 1..(i - 1) : list[j].message_id # id
    ELSE 0

\* msgs.filter((m) => m.message_id !== messageId)
WithoutMessage(list, id) == SelectSeq(list, LAMBDA m : m.message_id # id)

Bucket(channelId) ==
    IF Has(messagesByChannel, channelId) THEN messagesByChannel[channelId] ELSE <<>>

SendMessages(req) ==
    /\ Cardinality(pendingMessages) < MaxPendingMessages
    /\ req \notin pendingMessages
    /\ pendingMessages' = pendingMessages \cup {req}

\* const accessToken = get().accessToken; if (!accessToken) return; await fetch
MessagesCall(req) ==
    /\ IF accessToken = NULL THEN UNCHANGED pendingMessages ELSE SendMessages(req)
    /\ UNCHANGED <<messagesByChannel, lastCall>>

Answered(req) ==
    /\ req \in pendingMessages
    /\ pendingMessages' = pendingMessages \ {req}

FetchStoreMessagesStart(channelId) ==
    MessagesCall([op |-> "fetchMessages", channelId |-> channelId, messageId |-> 0])

\* fetchMessages after the await (lines 536-546).
FetchStoreMessagesResponse(channelId, ok, msgs) ==
    /\ Answered([op |-> "fetchMessages", channelId |-> channelId, messageId |-> 0])
    /\ messagesByChannel' = IF ok THEN Put(messagesByChannel, channelId, msgs)
                            ELSE messagesByChannel
    /\ lastCall' = Returned("fetchMessages")

\* Mutant of CreateMessageStart: a pending copy of the message is put into
\* the list before the backend has answered.
CreateMessageStartOptimistic(channelId) ==
    /\ IF accessToken = NULL THEN UNCHANGED pendingMessages
       ELSE SendMessages([op |-> "createMessage", channelId |-> channelId, messageId |-> 0])
    /\ Len(Bucket(channelId)) < MaxMessages
    /\ messagesByChannel' =
         Put(messagesByChannel, channelId,
             Append(Bucket(channelId),
                    [message_id |-> 0, channel_id |-> channelId, content |-> "Hello there",
                     created_at |-> 0]))
    /\ UNCHANGED lastCall

\* createMessage up to its await of fetch (lines 549-558).
CreateMessageStart(channelId) ==
    MessagesCall([op |-> "createMessage", channelId |-> channelId, messageId |-> 0])

\* createMessage after the await (lines 559-571): the returned message is
\* pushed onto the list of the channel the call named.
CreateMessageResponse(channelId, ok, newMsg) ==
    /\ Answered([op |-> "createMessage", channelId |-> channelId, messageId |-> 0])
    /\ ok => Len(Bucket(channelId)) < MaxMessages
    /\ messagesByChannel' =
         IF ok THEN Put(messagesByChannel, channelId, Append(Bucket(channelId), newMsg))
         ELSE messagesByChannel
    /\ lastCall' = Returned("createMessage")

UpdateMessageStart(messageId) ==
    MessagesCall([op |-> "updateMessage", channelId |-> 0, messageId |-> messageId])

\* Mutant of MessageReplaced: the old entry is taken out and the returned
\* message is put at the end of the list.
MessageReplacedAtEnd(map, id, message) ==
    IF ~Has(map, message.channel_id) THEN map
    ELSE LET idx == MessageIndex(map[message.channel_id], id) IN
         IF idx > 0
         THEN [map EXCEPT ![message.channel_id] = Append(Splice1(@, idx), message)]
         ELSE map

\* The producer of updateMessage and of handleMessageUpdated (lines 588-596,
\* 648-656): replace the entry with the id, in the message's channel.
MessageReplaced(map, id, message) ==
    IF ~Has(map, message.channel_id) THEN map
    ELSE LET idx == MessageIndex(map[message.channel_id], id) IN
         IF idx > 0 THEN [map EXCEPT ![message.channel_id][idx] = message] ELSE map

\* updateMessage after the await (lines 584-600).
UpdateMessageResponse(messageId, ok, updatedMsg) ==
    /\ Answered([op |-> "updateMessage", channelId |-> 0, messageId |-> messageId])
    /\ messagesByChannel' = IF ok THEN MessageReplaced(messagesByChannel, messageId, updatedMsg)
                            ELSE messagesByChannel
    /\ lastCall' = Returned("updateMessage")

DeleteMessageStart(messageId) ==
    MessagesCall([op |-> "deleteMessage", channelId |-> 0, messageId |-> messageId])

\* Mutant of DeleteMessageResponse: only the bucket of the channel the other
\* messages belong to is filtered.
DeleteMessageResponseOneBucket(messageId, ok) ==
    /\ Answered([op |-> "deleteMessage", channelId |-> 0, messageId |-> messageId])
    /\ messagesByChannel' =
         IF ok /\ Has(messagesByChannel, 99)
         THEN [messagesByChannel EXCEPT ![99] = WithoutMessage(@, messageId)]
         ELSE messagesByChannel
    /\ lastCall' = Returned("deleteMessage")

\* deleteMessage after the await (lines 612-628): every bucket is filtered.
DeleteMessageResponse(messageId, ok) ==
    /\ Answered([op |-> "deleteMessage", channelId |-> 0, messageId |-> messageId])
    /\ messagesByChannel' =
         IF ok THEN [c \in DOMAIN messagesByChannel |->
                        WithoutMessage(messagesByChannel[c], messageId)]
         ELSE messagesByChannel
    /\ lastCall' = Returned("deleteMessage")

\* The producer of handleMessageCreated (lines 633-642).
MessageCreated(map, message) ==
    LET list == IF Has(map, message.channel_id) THEN map[message.channel_id] ELSE <<>>
        exists == \E i \in 1..Len(list) : list[i].message_id = message.message_id
    IN Put(map, message.channel_id, IF ~exists THEN Append(list, message) ELSE list)

HandleMessageCreated(message) ==
    /\ Len(MessageCreated(messagesByChannel, message)[message.channel_id]) <= MaxMessages
    /\ messagesByChannel' = MessageCreated(messagesByChannel, message)
    /\ lastCall' = Returned("handleMessageCreated")
    /\ UNCHANGED pendingMessages

HandleMessageUpdated(message) ==
    /\ messagesByChannel' = MessageReplaced(messagesByChannel, message.message_id, message)
    /\ lastCall' = Returned("handleMessageUpdated")
    /\ UNCHANGED pendingMessages

\* Mutant of HandleMessageDeleted: a channel without a bucket gets an empty
\* one.
HandleMessageDeletedCreatesBucket(messageId, channelId) ==
    /\ messagesByChannel' =
         IF ~Has(messagesByChannel, channelId) THEN Put(messagesByChannel, channelId, <<>>)
         ELSE [messagesByChannel EXCEPT ![channelId] = WithoutMessage(@, messageId)]
    /\ lastCall' = Returned("handleMessageDeleted")
    /\ UNCHANGED pendingMessages

\* handleMessageDeleted (lines 660-668).
HandleMessageDeleted(messageId, channelId) ==
    /\ messagesByChannel' =
         IF ~Has(messagesByChannel, channelId) THEN messagesByChannel
         ELSE [messagesByChannel EXCEPT ![channelId] = WithoutMessage(@, messageId)]
    /\ lastCall' = Returned("handleMessageDeleted")
    /\ UNCHANGED pendingMessages

(***************************************************************************)
(* REACTIONS SLICE                                                         *)
(***************************************************************************)
ReactionMessageIds == {101, 200}
Emojis == {":smile:", ":thumbsup:"}
\* The emojis of the test of three distinct emojis on one message
\* (part_010 770-794).
OrderEmojis == Emojis \cup {":heart:"}
ReactionUsers == {5, 6}
\* Bound: how many duplicate user entries (a user pushed onto an aggregate
\* that already lists it) the whole store may hold.
MaxDuplicates == 1

\* Array.prototype.findIndex((r) => r.emoji === emoji), 1-based, 0 for -1
EmojiIndex(list, emoji) ==
    IF \E i \in 1..Len(list) : list[i].emoji = emoji
    THEN CHOOSE i \in 1..Len(list) :
            /\ list[i].emoji = emoji
            /\ \A j \in 1..(i - 1) : list[j].emoji # emoji
    ELSE 0

\* Mutant of ReactionAdded: a new aggregate is put in front of the list.
ReactionAddedInFront(list, emoji, user_id) ==
    LET reactionIdx == EmojiIndex(list, emoji) IN
    IF reactionIdx > 0
    THEN [list EXCEPT ![reactionIdx] =
            [emoji |-> @.emoji, count |-> @.count + 1, users |-> Append(@.users, user_id)]]
    ELSE <<[emoji |-> emoji, count |-> 1, users |-> <<user_id>>]>> \o list

\* The body of handleReactionAdded on the message's list (lines 703-712).
ReactionAdded(list, emoji, user_id) ==
    LET reactionIdx == EmojiIndex(list, emoji) IN
    IF reactionIdx > 0
    THEN [list EXCEPT ![reactionIdx] =
            [emoji |-> @.emoji, count |-> @.count + 1, users |-> Append(@.users, user_id)]]
    ELSE Append(list, [emoji |-> emoji, count |-> 1, users |-> <<user_id>>])

\* Mutant of ReactionRemoved: an aggregate that reaches count 0 is kept.
ReactionRemovedKeepEmpty(list, emoji, user_id) ==
    LET reactionIdx == EmojiIndex(list, emoji) IN
    IF reactionIdx > 0
    THEN LET users == Without(list[reactionIdx].users, user_id) IN
         [list EXCEPT ![reactionIdx] =
            [emoji |-> @.emoji, count |-> Len(users), users |-> users]]
    ELSE list

\* Mutant of ReactionRemoved: the count is decremented instead of recomputed
\* from the users that remain.
ReactionRemovedDecrement(list, emoji, user_id) ==
    LET reactionIdx == EmojiIndex(list, emoji) IN
    IF reactionIdx > 0
    THEN LET users == Without(list[reactionIdx].users, user_id)
             count == list[reactionIdx].count - 1
         IN IF count <= 0
            THEN Splice1(list, reactionIdx)
            ELSE [list EXCEPT ![reactionIdx] =
                    [emoji |-> @.emoji, count |-> count, users |-> users]]
    ELSE list

\* The body of handleReactionRemoved on the message's list (lines 722-732).
ReactionRemoved(list, emoji, user_id) ==
    LET reactionIdx == EmojiIndex(list, emoji) IN
    IF reactionIdx > 0
    THEN LET users == Without(list[reactionIdx].users, user_id)
             count == Len(users)
         IN IF count <= 0
            THEN Splice1(list, reactionIdx)
            ELSE [list EXCEPT ![reactionIdx] =
                    [emoji |-> @.emoji, count |-> count, users |-> users]]
    ELSE list

\* Number of duplicate user entries held by the reactions slice.
RECURSIVE SumDup(_)
SumDup(S) ==
    IF S = {} THEN 0
    ELSE LET x == CHOOSE y \in S : TRUE IN
         (Len(reactionsByMessage[x[1]][x[2]].users)
            - Cardinality(Range(reactionsByMessage[x[1]][x[2]].users)))
         + SumDup(S \ {x})
Duplicates ==
    SumDup({<<m, i>> \in ReactionMessageIds \X (1..Cardinality(OrderEmojis)) :
                m \in DOMAIN reactionsByMessage /\ i <= Len(reactionsByMessage[m])})

HandleReactionAdded(messageId, emoji, user_id) ==
    LET existingEmojis == IF Has(reactionsByMessage, messageId)
                          THEN reactionsByMessage[messageId] ELSE <<>>
        reactionIdx == EmojiIndex(existingEmojis, emoji)
    IN /\ (reactionIdx > 0 /\ user_id \in Range(existingEmojis[reactionIdx].users))
            => Duplicates < MaxDuplicates
       /\ reactionsByMessage' =
            Put(reactionsByMessage, messageId, ReactionAdded(existingEmojis, emoji, user_id))
       /\ lastCall' = Returned("handleReactionAdded")
       /\ UNCHANGED pendingReactions

HandleReactionRemoved(messageId, emoji, user_id) ==
    /\ reactionsByMessage' =
         IF ~Has(reactionsByMessage, messageId)
         THEN reactionsByMessage
         ELSE [reactionsByMessage EXCEPT
                 ![messageId] = ReactionRemoved(@, emoji, user_id)]
    /\ lastCall' = Returned("handleReactionRemoved")
    /\ UNCHANGED pendingReactions

(***************************************************************************)
(* PRESENCE SLICE                                                          *)
(***************************************************************************)
PresenceUsers == {5, 10, 15, 999}

\* Mutant of PresenceUpdated: the flag is stored instead of the entry being
\* deleted when the user goes offline.
PresenceUpdatedAssign(map, user, online) == Put(map, user, online)

\* The producer of updatePresence (lines 315-321).
PresenceUpdated(map, user, online) ==
    IF online THEN Put(map, user, TRUE) ELSE Delete(map, user)

UpdatePresence(user, online) ==
    /\ onlineUsers' = PresenceUpdated(onlineUsers, user, online)
    /\ lastCall' = [op |-> "updatePresence", result |-> "returned",
                    userId |-> user, online |-> online]
    /\ UNCHANGED isInitialized

\* handlePresenceEvent with a bulk payload {online_users} (lines 329-337).
HandlePresenceBulk(online_users) ==
    /\ onlineUsers' = [u \in online_users |-> TRUE]
    /\ isInitialized' = TRUE
    /\ lastCall' = Returned("handlePresenceEvent")

\* handlePresenceEvent with a single payload {user_id, status} (lines 339-345).
HandlePresenceSingle(user, status) ==
    /\ onlineUsers' = IF status = "online" THEN Put(onlineUsers, user, TRUE)
                      ELSE Delete(onlineUsers, user)
    /\ lastCall' = Returned("handlePresenceEvent")
    /\ UNCHANGED isInitialized

ResetPresence ==
    /\ onlineUsers' = EmptyMap
    /\ isInitialized' = FALSE
    /\ lastCall' = Returned("resetPresence")

\* isUserOnline (lines 359-361): absence is offline.
IsUserOnline(user) == Has(onlineUsers, user) /\ onlineUsers[user]

(***************************************************************************)
(* CHANNEL WINDOW (webapp/app/yotsu-interface.tsx)                         *)
(* React re-renders between events, so a handler's closure holds the state *)
(* of the moment the handler is called; the state updates a handler makes  *)
(* are not visible to the rest of that same handler call.                  *)
(***************************************************************************)
ViewChannels == {1, 2}
\* const limit = 20 (line 55)
limit == 20
\* Bound: the backend holds up to MaxPages full pages (and a part of one)
\* of a channel.
MaxPages == 2

\* Backend (not in the repository): message k of channel c has the id the
\* k-th insert of c gets when both channels are written to in turn, and a
\* created_at of one-second resolution that two consecutive messages of a
\* channel share.
ViewMessageId(c, k) == 2 * k - (2 - c)
ViewCreatedAt(id) == (id + 3) \div 4
ViewMsg(c, k) ==
    [message_id |-> ViewMessageId(c, k), channel_id |-> c,
     created_at |-> ViewCreatedAt(ViewMessageId(c, k))]
HistorySizes ==
    {p * limit + r : p \in 0..(MaxPages - 1), r \in {0, 1, limit - 1}} \cup {MaxPages * limit}

\* The element of a one-element set; a value bound through such a set is
\* evaluated once.
Only(S) == CHOOSE x \in S : TRUE

\* Backend: GET /messages/channels/{c}?before=&limit= answers with the
\* `limit` newest messages of c older than `before` (all of c without
\* `before`), oldest first.
ViewPage(c, before) ==
    LET eligible == {k \in 1..history[c] : before = 0 \/ ViewMessageId(c, k) < before}
    IN Only({SubSeq([k \in 1..n |-> ViewMsg(c, k)], IF n > limit THEN n - limit + 1 ELSE 1, n) :
               n \in {Cardinality(eligible)}})

Reverse(s) == SubSeq([i \in 1..Len(s) |-> s[Len(s) + 1 - i]], 1, Len(s))
\* The order in which the response lists the page's messages.
Ordered(page, order) == IF order = "desc" THEN Reverse(page) ELSE page

\* Array.prototype.sort with the comparator of line 65 (a stable sort): the
\* element at index i goes behind those of an earlier created_at and those
\* of the same created_at that stood before it.
SortedPosition(s, i) ==
    Cardinality({j \in 1..Len(s) :
                   \/ s[j].created_at < s[i].created_at
                   \/ s[j].created_at = s[i].created_at /\ j < i}) + 1
SortByCreatedAt(s) ==
    Only({Only({[p \in 1..Len(v) |-> v[CHOOSE i \in 1..Len(v) : r[i] = p]] :
                  r \in {SubSeq([i \in 1..Len(v) |-> SortedPosition(v, i)], 1, Len(v))}}) :
            v \in {SubSeq(s, 1, Len(s))}})

\* Mutant of Combined: the page is prepended and the list is not sorted.
CombinedUnsorted(prev, newMessages, beforeMessageId) ==
    IF beforeMessageId # 0 THEN newMessages \o prev ELSE newMessages

\* The updater passed to setMessages (lines 61-66).
Combined(prev, newMessages, beforeMessageId) ==
    SortByCreatedAt(IF beforeMessageId # 0 THEN prev \o newMessages ELSE newMessages)

\* Mutant of HasMoreAfter: any non-empty page counts as "more to come".
HasMoreAfterNonEmpty(newMessages) == Len(newMessages) >= 1

\* Mutant of HasMoreAfter used for termination: hasMore is never cleared.
HasMoreAfterAlways(newMessages) == TRUE

\* setHasMoreMessages(newMessages.length === limit) (line 67)
HasMoreAfter(newMessages) == Len(newMessages) = limit

\* fetchMessages up to its await (lines 50-57), run with the closure's
\* isLoadingMessages and hasMoreMessages.
ViewFetchStart(channelId, beforeMessageId) ==
    IF isLoadingMessages \/ ~hasMoreMessages
    THEN UNCHANGED <<isLoadingMessages, pendingFetch>>
    ELSE /\ isLoadingMessages' = TRUE
         /\ pendingFetch' = pendingFetch \cup
               {[channelId |-> channelId, beforeMessageId |-> beforeMessageId]}

\* handleChannelSelect (lines 43-48).
HandleChannelSelect(channel) ==
    /\ currentChannel' = channel
    /\ messages' = <<>>
    /\ hasMoreMessages' = TRUE
    /\ ViewFetchStart(channel, 0)
    /\ UNCHANGED history

\* The condition of handleScroll (line 82) once scrollTop < 20.
ScrollFetches == ~isLoadingMessages /\ hasMoreMessages /\ Len(messages) > 0

\* handleScroll near the top (lines 75-85).
HandleScroll ==
    /\ IF ScrollFetches
       THEN ViewFetchStart(currentChannel, messages[1].message_id)
       ELSE UNCHANGED <<isLoadingMessages, pendingFetch>>
    /\ UNCHANGED <<currentChannel, messages, hasMoreMessages, history>>

\* fetchMessages after its await, the response ok (lines 58-67, 70-72).
ViewFetchOk(req, order) ==
    /\ req \in pendingFetch
    /\ \E page \in {ViewPage(req.channelId, req.beforeMessageId)} :
       \E newMessages \in {Ordered(page, order)} :
         /\ messages' = Combined(messages, newMessages, req.beforeMessageId)
         /\ hasMoreMessages' = HasMoreAfter(newMessages)
    /\ pendingFetch' = pendingFetch \ {req}
    /\ isLoadingMessages' = FALSE
    /\ UNCHANGED <<currentChannel, history>>

\* fetchMessages after its await, the response not ok or fetch rejected
\* (lines 58, 68-72).
ViewFetchFailed(req) ==
    /\ req \in pendingFetch
    /\ pendingFetch' = pendingFetch \ {req}
    /\ isLoadingMessages' = FALSE
    /\ UNCHANGED <<currentChannel, messages, hasMoreMessages, history>>

(***************************************************************************)
(* CHANNEL MEMBERS slice (appStore.ts lines 489-521).                      *)
(***************************************************************************)
MemberChannels == {10, 99}
\* Bound: fetchChannelMembers requests in flight at once.
MaxPendingMembers == 2

\* type Member (lines 43-48)
Member(user_id, display_name, role) ==
    [user_id |-> user_id, display_name |-> display_name, role |-> role]
\* The bodies of GET /members/{channelId}.
MemberLists ==
    {<<>>,
     <<Member(5, "User5", "member")>>,
     <<Member(5, "User5", "member"), Member(7, "User7", "admin")>>}

\* fetchChannelMembers up to its await of fetch (lines 492-498).
FetchChannelMembersStart(channelId) ==
    /\ IF accessToken = NULL THEN UNCHANGED pendingMembers
       ELSE /\ Cardinality(pendingMembers) < MaxPendingMembers
            /\ [channelId |-> channelId] \notin pendingMembers
            /\ pendingMembers' = pendingMembers \cup {[channelId |-> channelId]}
    /\ UNCHANGED <<membersByChannel, lastCall>>

\* fetchChannelMembers after its await (lines 499-511).
FetchChannelMembersResponse(channelId, ok, data) ==
    /\ [channelId |-> channelId] \in pendingMembers
    /\ pendingMembers' = pendingMembers \ {[channelId |-> channelId]}
    /\ membersByChannel' = IF ok THEN Put(membersByChannel, channelId, data)
                           ELSE membersByChannel
    /\ lastCall' = Returned("fetchChannelMembers")

\* clearChannelMembers (lines 514-520).
ClearChannelMembers(channelId) ==
    /\ membersByChannel' = Delete(membersByChannel, channelId)
    /\ lastCall' = [op |-> "clearChannelMembers", result |-> "returned",
                    channelId |-> channelId]
    /\ UNCHANGED pendingMembers

(***************************************************************************)
(* The state after construction: every slice's initial state (lines 126-  *)
(* 130, 309-310, 366, 490, 525, 673), the component's initial state        *)
(* (yotsu-interface.tsx 32-35).  localStorage outlives the page, so a      *)
(* refresh token of an earlier session may be stored.  `history` is the    *)
(* backend's message count per channel (environment, never written).       *)
(***************************************************************************)
NoCall == [op |-> "none", result |-> "none"]

InitStore ==
    /\ accessToken = NULL
    /\ isAuthenticated = FALSE
    /\ userId = NoUser
    /\ tempToken = NULL
    /\ is2FARequired = FALSE
    /\ pendingAuth = {}
    /\ onlineUsers = EmptyMap
    /\ isInitialized = FALSE
    /\ channels = EmptyMap
    /\ pendingChannels = {}
    /\ membersByChannel = EmptyMap
    /\ pendingMembers = {}
    /\ messagesByChannel = EmptyMap
    /\ pendingMessages = {}
    /\ reactionsByMessage = EmptyMap
    /\ pendingReactions = {}
    /\ lastCall = NoCall

InitView ==
    /\ currentChannel = NoChannel
    /\ messages = <<>>
    /\ isLoadingMessages = FALSE
    /\ hasMoreMessages = TRUE
    /\ pendingFetch = {}

(***************************************************************************)
(* A first visit: nothing in localStorage, no backend history.             *)
(***************************************************************************)
InitFresh ==
    /\ InitStore
    /\ InitView
    /\ refresh_token = NULL
    /\ history = EmptyMap

(***************************************************************************)
(* Pushed reaction events on the store.                                    *)
(***************************************************************************)
NextReactions ==
    /\ \E messageId \in ReactionMessageIds, emoji \in Emojis, user_id \in ReactionUsers :
          \/ HandleReactionAdded(messageId, emoji, user_id)
          \/ HandleReactionRemoved(messageId, emoji, user_id)
    /\ OnlyReactions

SpecReactions == InitFresh /\ [][NextReactions]_vars

(***************************************************************************)
(* C1.  After every handleReactionAdded / handleReactionRemoved call, each *)
(* aggregate of every message has count equal to the length of its users   *)
(* array, and no aggregate with count 0 is in a list.                      *)
(***************************************************************************)
C1_CountMatchesUsers ==
    \A m \in DOMAIN reactionsByMessage :
        \A i \in 1..Len(reactionsByMessage[m]) :
            /\ reactionsByMessage[m][i].count = Len(reactionsByMessage[m][i].users)
            /\ reactionsByMessage[m][i].count # 0

\* A removal has just run, one message holds an aggregate of two users and
\* another message's last aggregate has been removed.
C1_Witness ==
    /\ lastCall.op = "handleReactionRemoved"
    /\ \E m \in DOMAIN reactionsByMessage :
          \E i \in 1..Len(reactionsByMessage[m]) : reactionsByMessage[m][i].count = 2
    /\ \E m \in DOMAIN reactionsByMessage : reactionsByMessage[m] = <<>>

(***************************************************************************)
(* C9.  handleReactionAdded does not double-count: when user_id is already *)
(* in the users of the existing aggregate for emoji, the call leaves that  *)
(* aggregate's count unchanged and user_id appears in users exactly once.  *)
(***************************************************************************)
C9_NoDoubleCount ==
    [][\A m \in ReactionMessageIds, e \in Emojis, u \in ReactionUsers :
         ( /\ HandleReactionAdded(m, e, u) /\ OnlyReactions
           /\ Has(reactionsByMessage, m)
           /\ EmojiIndex(reactionsByMessage[m], e) > 0
           /\ u \in Range(reactionsByMessage[m][EmojiIndex(reactionsByMessage[m], e)].users) )
         => LET i == EmojiIndex(reactionsByMessage[m], e)
                before == reactionsByMessage[m][i]
                after == reactionsByMessage'[m][i]
            IN /\ after.count = before.count
               /\ Cardinality({k \in 1..Len(after.users) : after.users[k] = u}) = 1
      ]_vars

(***************************************************************************)
(* C10.  handleReactionRemoved(messageId, {emoji, user_id}) removes        *)
(* user_id from the aggregate for emoji and sets its count to the number   *)
(* of users that remain; the aggregate is deleted exactly when no user     *)
(* remains; aggregates of other emojis and the lists of other messages are *)
(* unchanged.                                                              *)
(***************************************************************************)
C10_RemovedPost ==
    [][\A m \in ReactionMessageIds, e \in Emojis, u \in ReactionUsers :
         (lastCall'.op = "handleReactionRemoved" /\ HandleReactionRemoved(m, e, u) /\ OnlyReactions) =>
           /\ DOMAIN reactionsByMessage' = DOMAIN reactionsByMessage
           /\ \A m2 \in DOMAIN reactionsByMessage \ {m} :
                 reactionsByMessage'[m2] = reactionsByMessage[m2]
           /\ Has(reactionsByMessage, m) =>
                LET old == reactionsByMessage[m]
                    new == reactionsByMessage'[m]
                    olds == {i \in 1..Len(old) : old[i].emoji = e}
                    news == {i \in 1..Len(new) : new[i].emoji = e}
                IN /\ \A e2 \in Emojis \ {e} :
                         {new[i] : i \in {j \in 1..Len(new) : new[j].emoji = e2}}
                           = {old[i] : i \in {j \in 1..Len(old) : old[j].emoji = e2}}
                   /\ olds = {} => new = old
                   /\ \A i \in olds :
                        LET kept == {k \in 1..Len(old[i].users) : old[i].users[k] # u} IN
                        /\ (news # {}) <=> (kept # {})
                        /\ \A j \in news :
                              /\ u \notin Range(new[j].users)
                              /\ Range(new[j].users) = {old[i].users[k] : k \in kept}
                              /\ Len(new[j].users) = Cardinality(kept)
                              /\ new[j].count = Cardinality(kept)
      ]_vars

\* A removal has just deleted the last aggregate of message 101 while message
\* 200 still holds two aggregates.
C10_Witness ==
    /\ lastCall.op = "handleReactionRemoved"
    /\ Has(reactionsByMessage, 101) /\ reactionsByMessage[101] = <<>>
    /\ Has(reactionsByMessage, 200) /\ Len(reactionsByMessage[200]) = 2

(***************************************************************************)
(* Presence calls and pushed presence events on the store.                 *)
(***************************************************************************)
NextPresence ==
    /\ \/ \E user \in PresenceUsers, online \in BOOLEAN : UpdatePresence(user, online)
       \/ \E online_users \in SUBSET PresenceUsers : HandlePresenceBulk(online_users)
       \/ \E user \in PresenceUsers, status \in {"online", "offline"} :
             HandlePresenceSingle(user, status)
       \/ ResetPresence
    /\ OnlyPresence

SpecPresence == InitFresh /\ [][NextPresence]_vars

(***************************************************************************)
(* C8.  updatePresence(u, online) changes only u's presence entry: after   *)
(* it u is in onlineUsers iff online, every other user's entry is as       *)
(* before, and updatePresence(u, false) for an absent u leaves the map and *)
(* its size unchanged; the call returns normally.                          *)
(***************************************************************************)
C8_UpdatePresenceFrame ==
    [][\A u \in PresenceUsers, online \in BOOLEAN :
         (UpdatePresence(u, online) /\ OnlyPresence) =>
           /\ Has(onlineUsers', u) <=> online
           /\ \A v \in PresenceUsers \ {u} :
                 /\ Has(onlineUsers', v) <=> Has(onlineUsers, v)
                 /\ Has(onlineUsers, v) => onlineUsers'[v] = onlineUsers[v]
           /\ (~online /\ ~Has(onlineUsers, u)) =>
                 /\ onlineUsers' = onlineUsers
                 /\ Cardinality(DOMAIN onlineUsers') = Cardinality(DOMAIN onlineUsers)
           /\ lastCall'.result = "returned"
           /\ isInitialized' = isInitialized
      ]_vars

\* updatePresence(999, false) has just returned with users 5 and 10 online
\* and 999 not in the map.
C8_Witness ==
    /\ lastCall = [op |-> "updatePresence", result |-> "returned",
                   userId |-> 999, online |-> FALSE]
    /\ DOMAIN onlineUsers = {5, 10}

(***************************************************************************)
(* The auth operations, their responses arriving in any order.             *)
(***************************************************************************)
InitAuth ==
    /\ InitStore
    /\ InitView
    /\ refresh_token \in {NULL, StoredRefresh}
    /\ history = EmptyMap

NextAuth ==
    /\ \/ LoginStart
       \/ \E outcome \in LoginFailures \cup {"temp_token", "access_token", "empty"},
             access_token \in AccessTokens, user_id \in SessionUsers,
             data_refresh_token \in RefreshTokens \cup {NULL} :
             LoginResponse(outcome, access_token, user_id, data_refresh_token)
       \/ Verify2FAStart
       \/ \E ok \in BOOLEAN, access_token \in AccessTokens,
             data_refresh_token \in RefreshTokens \cup {NULL} :
             Verify2FAResponse(ok, access_token, data_refresh_token)
       \/ Logout
       \/ RefreshTokensStart
       \/ \E ok \in BOOLEAN, access_token \in AccessTokens,
             data_refresh_token \in RefreshTokens \cup {NULL} :
             RefreshTokensResponse(ok, access_token, data_refresh_token)
       \/ VerifyTokenStart
       \/ \E outcome \in {"valid", "invalid", "not_ok"}, user_id \in SessionUsers :
             VerifyTokenResponse(outcome, user_id)
       \/ \E token \in AccessTokens \cup {NULL} : SetAccessToken(token)
    /\ OnlyAuth

SpecAuth == InitAuth /\ [][NextAuth]_vars

(***************************************************************************)
(* C6.  A login that fails (the backend answers not-ok, or the request     *)
(* throws) surfaces an error to its caller and leaves accessToken,         *)
(* isAuthenticated, userId, tempToken, is2FARequired and the persisted     *)
(* refresh token as they were before the call answered.                    *)
(***************************************************************************)
C6_FailedLoginKeepsSession ==
    [][ /\ \A outcome \in LoginFailures, access_token \in AccessTokens,
              user_id \in SessionUsers, data_refresh_token \in RefreshTokens \cup {NULL} :
              (LoginResponse(outcome, access_token, user_id, data_refresh_token) /\ OnlyAuth)
                 => lastCall' = Threw("login")
        /\ (lastCall' = Threw("login") /\ pendingAuth' # pendingAuth) =>
              /\ accessToken' = accessToken
              /\ isAuthenticated' = isAuthenticated
              /\ userId' = userId
              /\ tempToken' = tempToken
              /\ is2FARequired' = is2FARequired
              /\ refresh_token' = refresh_token
      ]_vars

\* A login has just failed in a session that is authenticated and holds a
\* stored refresh token: nothing of it was cleared.
C6_Witness ==
    /\ lastCall = Threw("login")
    /\ isAuthenticated /\ accessToken = "FAKE_ACCESS_TOKEN" /\ userId = 5
    /\ refresh_token = "FAKE_REFRESH_TOKEN"

(***************************************************************************)
(* The channels slice with the login and logout it depends on.             *)
(***************************************************************************)
NextChannels ==
    \/ /\ \/ LoginStart
          \/ \E outcome \in {"not_ok", "access_token"}, user_id \in SessionUsers :
                LoginResponse(outcome, "FAKE_ACCESS_TOKEN", user_id, NULL)
          \/ Logout
       /\ OnlyAuth
    \/ /\ \/ ListChannelsStart
          \/ RefreshChannelsStart
          \/ \E op \in {"listChannels", "refreshChannels"}, ok \in BOOLEAN,
                data \in ChannelLists : ChannelListResponse(op, ok, data)
          \/ \E name \in ChannelNames, type \in {"public", "private"} :
                CreateChannelStart(name, type)
          \/ \E ok \in BOOLEAN, channel_id \in ChannelIds : CreateChannelPosted(ok, channel_id)
          \/ \E ok \in BOOLEAN, c \in ChannelIds :
                \E channelDetails \in ServerChannels(c) : CreateChannelDetails(ok, channelDetails)
          \/ \E channelId \in ChannelIds : UpdateChannelStart(channelId)
          \/ \E channelId \in ChannelIds, ok \in BOOLEAN :
                \E updated \in ServerChannels(channelId) :
                   UpdateChannelResponse(channelId, ok, updated)
          \/ \E channelId \in ChannelIds, joinedUserId \in EventUsers :
                HandleJoinEvent(channelId, joinedUserId)
          \/ \E channelId \in ChannelIds, leftUserId \in EventUsers :
                HandleLeaveEvent(channelId, leftUserId)
       /\ OnlyChannels

SpecChannels == InitFresh /\ [][NextChannels]_vars

(***************************************************************************)
(* C7.  handleJoinEvent(channelId, u) makes exactly one refreshChannels    *)
(* call if u is the session's userId and channelId is absent from          *)
(* channels, and none otherwise; handleLeaveEvent(channelId, u) makes      *)
(* exactly one if u is the session's userId and channelId is present, and  *)
(* none otherwise.  Neither handler writes to the store.                   *)
(***************************************************************************)
C7_MembershipEventRefresh ==
    [][\A c \in ChannelIds, u \in EventUsers :
         /\ (HandleJoinEvent(c, u) /\ OnlyChannels) =>
              /\ lastCall'.refreshChannels =
                    IF u = userId /\ c \notin DOMAIN channels THEN 1 ELSE 0
              /\ (lastCall'.refreshChannels = 1 /\ accessToken # NULL)
                    <=> pendingChannels' = pendingChannels \cup {[op |-> "refreshChannels"]}
                          /\ pendingChannels' # pendingChannels
              /\ channels' = channels
         /\ (HandleLeaveEvent(c, u) /\ OnlyChannels) =>
              /\ lastCall'.refreshChannels =
                    IF u = userId /\ c \in DOMAIN channels THEN 1 ELSE 0
              /\ (lastCall'.refreshChannels = 1 /\ accessToken # NULL)
                    <=> pendingChannels' = pendingChannels \cup {[op |-> "refreshChannels"]}
                          /\ pendingChannels' # pendingChannels
              /\ channels' = channels
      ]_vars

\* handleLeaveEvent has just made its one refreshChannels call: the session's
\* user is 5, channel 10 is held locally and the refresh request is in flight.
C7_Witness ==
    /\ lastCall = [op |-> "handleLeaveEvent", result |-> "returned", refreshChannels |-> 1]
    /\ userId = 5
    /\ Has(channels, 10)
    /\ [op |-> "refreshChannels"] \in pendingChannels

(***************************************************************************)
(* The messages slice with the login and logout it depends on.             *)
(***************************************************************************)
NextMessages ==
    \/ /\ \/ LoginStart
          \/ LoginResponse("access_token", "FAKE_ACCESS_TOKEN", 5, NULL)
          \/ Logout
       /\ OnlyAuth
    \/ /\ \/ \E channelId \in MessageChannels : FetchStoreMessagesStart(channelId)
          \/ \E channelId \in MessageChannels, ok \in BOOLEAN :
                \E msgs \in MessagePages(channelId) :
                   FetchStoreMessagesResponse(channelId, ok, msgs)
          \/ \E channelId \in MessageChannels : CreateMessageStart(channelId)
          \/ \E channelId \in MessageChannels, ok \in BOOLEAN :
                \E newMsg \in MessagesOf(channelId) :
                   CreateMessageResponse(channelId, ok, newMsg)
          \/ \E messageId \in EditedIds : UpdateMessageStart(messageId)
          \/ \E messageId \in EditedIds, ok \in BOOLEAN :
                \E updatedMsg \in {m \in ServerMessages : m.message_id = messageId} :
                   UpdateMessageResponse(messageId, ok, updatedMsg)
          \/ \E messageId \in MessageIds : DeleteMessageStart(messageId)
          \/ \E messageId \in MessageIds, ok \in BOOLEAN :
                DeleteMessageResponse(messageId, ok)
          \/ \E message \in ServerMessages : HandleMessageCreated(message)
          \/ \E message \in ServerMessages : HandleMessageUpdated(message)
          \/ \E messageId \in MessageIds, channelId \in MessageChannels :
                HandleMessageDeleted(messageId, channelId)
       /\ OnlyMessages

SpecMessages == InitFresh /\ [][NextMessages]_vars

(***************************************************************************)
(* C2.  handleMessageCreated is idempotent: from any store state, after    *)
(* handleMessageCreated(m) the list of m.channel_id holds exactly one      *)
(* entry with m.message_id, and a call for a message whose id is already   *)
(* in that list (the second of two calls) leaves the store unchanged.      *)
(***************************************************************************)
C2_CreatedIdempotent ==
    [][\A m \in ServerMessages :
         (HandleMessageCreated(m) /\ OnlyMessages) =>
           /\ Cardinality({i \in 1..Len(messagesByChannel'[m.channel_id]) :
                 messagesByChannel'[m.channel_id][i].message_id = m.message_id}) = 1
           /\ (\E i \in 1..Len(Bucket(m.channel_id)) :
                   Bucket(m.channel_id)[i].message_id = m.message_id)
                 => messagesByChannel' = messagesByChannel
      ]_vars

(***************************************************************************)
(* The channel window: channel selection, scrolling to the top, and the    *)
(* page responses.                                                         *)
(***************************************************************************)
InitWindow ==
    /\ InitStore
    /\ InitView
    /\ refresh_token = NULL
    /\ history \in [ViewChannels -> HistorySizes]
    /\ history[2] \in {0, limit + 1}

Requests == {[channelId |-> c, beforeMessageId |-> b] :
                c \in ViewChannels, b \in 0..(2 * MaxPages * limit)}

NextWindow ==
    /\ \/ \E channel \in ViewChannels : HandleChannelSelect(channel)
       \/ HandleScroll
       \/ \E req \in pendingFetch, order \in {"asc", "desc"} : ViewFetchOk(req, order)
       \/ \E req \in pendingFetch : ViewFetchFailed(req)
    /\ OnlyView

SpecWindow == InitWindow /\ [][NextWindow]_vars

\* The number of entries of list s equal to message m.
Occurrences(s, m) == Cardinality({i \in 1..Len(s) : s[i] = m})
IsSortedByCreatedAt(s) ==
    \A i \in 1..(Len(s) - 1) : s[i].created_at <= s[i + 1].created_at

\* C3: a successful fetch with a beforeMessageId keeps every message the
\* list held and adds the page's messages to them; a successful fetch
\* without one leaves exactly the page's messages; either way the list is
\* then in ascending order of created_at.
C3_MergeKeepsAndSorts ==
    [][\A req \in Requests, order \in {"asc", "desc"} :
         (ViewFetchOk(req, order) /\ OnlyView) =>
           LET page == ViewPage(req.channelId, req.beforeMessageId) IN
           /\ IsSortedByCreatedAt(messages')
           /\ req.beforeMessageId # 0 =>
                /\ Len(messages') = Len(messages) + Len(page)
                /\ \A i \in 1..Len(messages) :
                     Occurrences(messages', messages[i]) >= Occurrences(messages, messages[i])
                /\ \A i \in 1..Len(page) : Occurrences(messages', page[i]) >= 1
           /\ req.beforeMessageId = 0 =>
                /\ Len(messages') = Len(page)
                /\ \A i \in 1..Len(page) : Occurrences(messages', page[i]) = 1
      ]_vars

\* Two pages of channel 1 have been merged into one sorted list.
C3_Witness ==
    /\ currentChannel = 1
    /\ Len(messages) = 2 * limit
    /\ messages[1].message_id = ViewMessageId(1, history[1] - 2 * limit + 1)
    /\ ~isLoadingMessages

\* C4: after a successful fetch hasMoreMessages is false exactly when the
\* page held fewer than limit messages; a failed fetch leaves
\* hasMoreMessages as it was.
C4_HasMoreIffFullPage ==
    [][\A req \in Requests :
         /\ \A order \in {"asc", "desc"} :
              (ViewFetchOk(req, order) /\ OnlyView) =>
                (hasMoreMessages' = FALSE
                   <=> Len(ViewPage(req.channelId, req.beforeMessageId)) < limit)
         /\ (ViewFetchFailed(req) /\ OnlyView) => hasMoreMessages' = hasMoreMessages
      ]_vars

\* A second, short but non-empty page has ended the pagination.
C4_Witness ==
    /\ ~hasMoreMessages
    /\ ~isLoadingMessages
    /\ pendingFetch = {}
    /\ Len(messages) = limit + 1

(***************************************************************************)
(* The channel window with a backend that always answers successfully and  *)
(* a user who keeps scrolling to the top: every request is answered, and   *)
(* a scroll that would fetch a page eventually happens.                    *)
(***************************************************************************)
ScrollStep == HandleScroll /\ OnlyView
AnswerStep ==
    /\ \E req \in pendingFetch, order \in {"asc", "desc"} : ViewFetchOk(req, order)
    /\ OnlyView

NextScrolling ==
    /\ \/ \E channel \in ViewChannels : HandleChannelSelect(channel)
       \/ HandleScroll
       \/ \E req \in pendingFetch, order \in {"asc", "desc"} : ViewFetchOk(req, order)
    /\ OnlyView

SpecScrolling ==
    /\ InitWindow
    /\ [][NextScrolling]_vars
    /\ WF_vars(ScrollStep)
    /\ WF_vars(AnswerStep)

NextReactionOrder ==
    /\ \E emoji \in OrderEmojis, user_id \in ReactionUsers :
          \/ HandleReactionAdded(200, emoji, user_id)
          \/ HandleReactionRemoved(200, emoji, user_id)
    /\ OnlyReactions

SpecReactionOrder == InitFresh /\ [][NextReactionOrder]_vars

\* The emojis of a reaction list, in list order.
EmojisOf(list) == [i \in 1..Len(list) |-> list[i].emoji]
\* The reaction list of a message, empty when the message has no entry.
ReactionsOf(map, messageId) == IF Has(map, messageId) THEN map[messageId] ELSE <<>>

(***************************************************************************)
(* C11.  First-seen order: handleReactionAdded for an emoji with no        *)
(* aggregate appends [emoji, count 1, users <<user_id>>] after the         *)
(* existing aggregates; for an emoji with an aggregate it leaves the order *)
(* of emojis as it was; handleReactionRemoved leaves the remaining         *)
(* aggregates in their previous relative order.                            *)
(***************************************************************************)
C11_FirstSeenOrder ==
    [][\A e \in OrderEmojis, u \in ReactionUsers :
         LET old == ReactionsOf(reactionsByMessage, 200)
             new == ReactionsOf(reactionsByMessage', 200)
         IN
         /\ (HandleReactionAdded(200, e, u) /\ OnlyReactions) =>
              IF \E i \in 1..Len(old) : old[i].emoji = e
              THEN EmojisOf(new) = EmojisOf(old)
              ELSE new = Append(old, [emoji |-> e, count |-> 1, users |-> <<u>>])
         /\ (HandleReactionRemoved(200, e, u) /\ OnlyReactions) =>
              EmojisOf(new) =
                SelectSeq(EmojisOf(old),
                          LAMBDA x : \E j \in 1..Len(new) : new[j].emoji = x)
      ]_vars

\* A removal has just taken :thumbsup:, the second of three aggregates, out
\* of the list; :smile: and :heart: remain in that order.
C11_Witness ==
    /\ lastCall.op = "handleReactionRemoved"
    /\ Has(reactionsByMessage, 200)
    /\ EmojisOf(reactionsByMessage[200]) = <<":smile:", ":heart:">>

(***************************************************************************)
(* C12.  When login's response carries a temporary token, then after the   *)
(* call tempToken is that token, is2FARequired is true, isAuthenticated is *)
(* false and accessToken is null, whatever the session was before.         *)
(***************************************************************************)
C12_TempTokenNotAuthenticated ==
    [][\A access_token \in AccessTokens, user_id \in SessionUsers,
          data_refresh_token \in RefreshTokens \cup {NULL} :
          (LoginResponse("temp_token", access_token, user_id, data_refresh_token) /\ OnlyAuth) =>
             /\ tempToken' \in TempTokens
             /\ is2FARequired' = TRUE
             /\ isAuthenticated' = FALSE
             /\ accessToken' = NULL
      ]_vars

(***************************************************************************)
(* C13.  verify2FA sends its request only while a tempToken is held; with  *)
(* none it throws at once, sends nothing and changes no session field.  A  *)
(* confirmed verification sets accessToken, isAuthenticated = true,        *)
(* tempToken = null and is2FARequired = false, and returns; a rejected one *)
(* throws and changes no session field.                                    *)
(***************************************************************************)
C13_Verify2FA ==
    [][ /\ (Verify2FAStart /\ OnlyAuth) =>
              /\ KeepSession
              /\ IF tempToken = NULL
                 THEN pendingAuth' = pendingAuth /\ lastCall' = Threw("verify2FA")
                 ELSE pendingAuth' = pendingAuth \cup {[op |-> "verify2FA"]}
        /\ \A access_token \in AccessTokens, data_refresh_token \in RefreshTokens \cup {NULL} :
              /\ (Verify2FAResponse(TRUE, access_token, data_refresh_token) /\ OnlyAuth) =>
                    /\ accessToken' = access_token
                    /\ isAuthenticated' = TRUE
                    /\ tempToken' = NULL
                    /\ is2FARequired' = FALSE
                    /\ lastCall' = Returned("verify2FA")
              /\ (Verify2FAResponse(FALSE, access_token, data_refresh_token) /\ OnlyAuth) =>
                    /\ KeepSession
                    /\ lastCall' = Threw("verify2FA")
        /\ (lastCall' = Returned("verify2FA") /\ lastCall # lastCall') =>
              [op |-> "verify2FA"] \in pendingAuth
      ]_vars

\* A verification has just been rejected: the session still awaits 2FA.
C13_Witness ==
    /\ lastCall = Threw("verify2FA")
    /\ tempToken = "TEMP_TOKEN" /\ is2FARequired
    /\ ~isAuthenticated /\ accessToken = NULL

(***************************************************************************)
(* C14.  A refreshTokens that finds no persisted refresh token, or whose   *)
(* request is rejected, completes with accessToken null, isAuthenticated   *)
(* false, userId null and no persisted refresh token; the first sends no   *)
(* request, the second leaves no refresh request in flight (no retry).     *)
(***************************************************************************)
C14_RefreshFailureLogsOut ==
    [][ /\ (RefreshTokensStart /\ OnlyAuth /\ refresh_token = NULL) =>
              /\ accessToken' = NULL /\ isAuthenticated' = FALSE /\ userId' = NoUser
              /\ refresh_token' = NULL
              /\ pendingAuth' = pendingAuth
              /\ lastCall' = Returned("refreshTokens")
        /\ \A access_token \in AccessTokens, data_refresh_token \in RefreshTokens \cup {NULL} :
              (RefreshTokensResponse(FALSE, access_token, data_refresh_token) /\ OnlyAuth) =>
                 /\ accessToken' = NULL /\ isAuthenticated' = FALSE /\ userId' = NoUser
                 /\ refresh_token' = NULL
                 /\ [op |-> "refreshTokens"] \notin pendingAuth'
                 /\ lastCall' = Returned("refreshTokens")
        /\ (RefreshTokensStart /\ OnlyAuth /\ refresh_token # NULL) =>
              Cardinality({r \in pendingAuth' : r.op = "refreshTokens"}) = 1
      ]_vars

\* A refresh has just completed in failure while a login is still in flight:
\* the session is logged out.
C14_Witness ==
    /\ lastCall = Returned("refreshTokens")
    /\ accessToken = NULL /\ ~isAuthenticated /\ userId = NoUser
    /\ refresh_token = NULL
    /\ pendingAuth = {[op |-> "login"]}

(***************************************************************************)
(* C15.  logout sets accessToken null, isAuthenticated false, userId null, *)
(* tempToken null, is2FARequired false and removes the persisted refresh   *)
(* token, from any session state; a logout right after a logout changes    *)
(* nothing.                                                                *)
(***************************************************************************)
C15_LogoutClearsIdempotent ==
    /\ [][(Logout /\ OnlyAuth) =>
            /\ accessToken' = NULL
            /\ isAuthenticated' = FALSE
            /\ userId' = NoUser
            /\ tempToken' = NULL
            /\ is2FARequired' = FALSE
            /\ refresh_token' = NULL
            /\ pendingAuth' = pendingAuth
         ]_vars
    /\ [](lastCall = Returned("logout") => ~ENABLED <<Logout /\ OnlyAuth>>_vars)

\* A logout has run while a login and a verify2FA are still in flight.
C15_Witness ==
    /\ lastCall = Returned("logout")
    /\ accessToken = NULL /\ tempToken = NULL /\ refresh_token = NULL
    /\ pendingAuth = {[op |-> "login"], [op |-> "verify2FA"]}

(***************************************************************************)
(* C16.  setAccessToken(token) leaves accessToken = token and              *)
(* isAuthenticated = (token is not null), and the other session fields as  *)
(* they were.                                                              *)
(***************************************************************************)
C16_SetAccessToken ==
    [][\A token \in AccessTokens \cup {NULL} :
          (SetAccessToken(token) /\ OnlyAuth) =>
             /\ accessToken' = token
             /\ isAuthenticated' = (token # NULL)
             /\ UNCHANGED <<userId, tempToken, is2FARequired>>
      ]_vars

(***************************************************************************)
(* The two operations that fetch the full channel list, with the login     *)
(* and logout they depend on.                                              *)
(***************************************************************************)
NextChannelList ==
    \/ /\ \/ LoginStart
          \/ \E outcome \in {"not_ok", "access_token"}, user_id \in SessionUsers :
                LoginResponse(outcome, "FAKE_ACCESS_TOKEN", user_id, NULL)
          \/ Logout
       /\ OnlyAuth
    \/ /\ \/ ListChannelsStart
          \/ RefreshChannelsStart
          \/ \E op \in {"listChannels", "refreshChannels"}, ok \in BOOLEAN,
                data \in ChannelLists : ChannelListResponse(op, ok, data)
       /\ OnlyChannels

SpecChannelList == InitFresh /\ [][NextChannelList]_vars

(***************************************************************************)
(* C17.  When listChannels or refreshChannels completes successfully,      *)
(* channels holds exactly the channels of the returned list, each under    *)
(* its channel_id, and no other key.                                       *)
(***************************************************************************)
C17_ChannelsReplacedWholesale ==
    [][\A op \in {"listChannels", "refreshChannels"}, data \in ChannelLists :
          (ChannelListResponse(op, TRUE, data) /\ OnlyChannels) =>
             /\ DOMAIN channels' = {data[i].channel_id : i \in 1..Len(data)}
             /\ \A i \in 1..Len(data) : channels'[data[i].channel_id] = data[i]
      ]_vars

\* refreshChannels has just replaced the mapping with a list of the two
\* channels 10 and 100.
C17_Witness ==
    /\ lastCall = Returned("refreshChannels")
    /\ DOMAIN channels = {10, 100}

(***************************************************************************)
(* C19.  A confirmed updateMessage(id, content) leaves the list of the     *)
(* message's channel with the same length and the same order of            *)
(* message_ids, the entry at the message's position equal to the returned  *)
(* message, and every message of another id, in every channel, unchanged.  *)
(***************************************************************************)
C19_UpdateInPlace ==
    [][\A messageId \in EditedIds :
         \A updatedMsg \in {m \in ServerMessages : m.message_id = messageId} :
           ( /\ lastCall' = Returned("updateMessage")
             /\ UpdateMessageResponse(messageId, TRUE, updatedMsg) /\ OnlyMessages ) =>
             /\ DOMAIN messagesByChannel' = DOMAIN messagesByChannel
             /\ \A c \in DOMAIN messagesByChannel :
                  LET old == messagesByChannel[c]
                      new == messagesByChannel'[c]
                  IN /\ Len(new) = Len(old)
                     /\ \A i \in 1..Len(old) :
                          /\ new[i].message_id = old[i].message_id
                          /\ old[i].message_id # messageId => new[i] = old[i]
                     /\ (c = updatedMsg.channel_id /\ MessageIndex(old, messageId) > 0)
                          => new[MessageIndex(old, messageId)] = updatedMsg
      ]_vars

\* An update has just been confirmed: message 100, first of the two messages
\* of channel 99, carries the edited content at its old position.
C19_Witness ==
    /\ lastCall = Returned("updateMessage")
    /\ Bucket(99) = <<Msg(100, "edited"), Msg(101, "Hello there")>>

(***************************************************************************)
(* C20.  A confirmed deleteMessage(id) leaves no bucket with a message of  *)
(* that id, and in every bucket the other messages in their previous       *)
(* relative order.                                                         *)
(***************************************************************************)
C20_DeleteFromAnyBucket ==
    [][\A messageId \in MessageIds :
         ( /\ lastCall' = Returned("deleteMessage")
           /\ DeleteMessageResponse(messageId, TRUE) /\ OnlyMessages ) =>
           /\ DOMAIN messagesByChannel' = DOMAIN messagesByChannel
           /\ \A c \in DOMAIN messagesByChannel :
                LET old == messagesByChannel[c]
                    new == messagesByChannel'[c]
                    kept == {i \in 1..Len(old) : old[i].message_id # messageId}
                IN /\ \A i \in 1..Len(new) : new[i].message_id # messageId
                   /\ Len(new) = Cardinality(kept)
                   /\ \A i \in kept :
                        new[Cardinality({j \in kept : j <= i})] = old[i]
      ]_vars

\* A delete has just been confirmed: message 102 is gone from the bucket of
\* channel 98, and channel 99 still holds its two messages.
C20_Witness ==
    /\ lastCall = Returned("deleteMessage")
    /\ Has(messagesByChannel, 98) /\ messagesByChannel[98] = <<>>
    /\ Has(messagesByChannel, 99) /\ Len(messagesByChannel[99]) = 2

(***************************************************************************)
(* The write-path operations of the messages and channels slices on        *)
(* channel 99 and channel 10, with the login they depend on.               *)
(***************************************************************************)
NextWrites ==
    \/ /\ \/ LoginStart
          \/ LoginResponse("access_token", "FAKE_ACCESS_TOKEN", 5, NULL)
       /\ OnlyAuth
    \/ /\ \/ CreateMessageStart(99)
          \/ \E ok \in BOOLEAN, newMsg \in MessagesOf(99) :
                CreateMessageResponse(99, ok, newMsg)
          \/ \E messageId \in EditedIds : UpdateMessageStart(messageId)
          \/ \E messageId \in EditedIds, ok \in BOOLEAN :
                \E updatedMsg \in {m \in ServerMessages : m.message_id = messageId} :
                   UpdateMessageResponse(messageId, ok, updatedMsg)
          \/ \E messageId \in EditedIds : DeleteMessageStart(messageId)
          \/ \E messageId \in EditedIds, ok \in BOOLEAN :
                DeleteMessageResponse(messageId, ok)
       /\ OnlyMessages
    \/ /\ \/ \E name \in ChannelNames : CreateChannelStart(name, "private")
          \/ \E ok \in BOOLEAN : CreateChannelPosted(ok, 10)
          \/ \E ok \in BOOLEAN, channelDetails \in ServerChannels(10) :
                CreateChannelDetails(ok, channelDetails)
          \/ UpdateChannelStart(10)
          \/ \E ok \in BOOLEAN, updated \in ServerChannels(10) :
                UpdateChannelResponse(10, ok, updated)
       /\ OnlyChannels

SpecWrites == InitFresh /\ [][NextWrites]_vars

(***************************************************************************)
(* C18.  createMessage, updateMessage, deleteMessage, createChannel and    *)
(* updateChannel write nothing when they send their request (createMessage *)
(* puts no pending copy into the list) and nothing when the request fails  *)
(* (for createChannel: either of its two requests); a confirmed            *)
(* createMessage appends exactly the returned message at the end of the    *)
(* list of the channel.                                                    *)
(***************************************************************************)
C18_WritesAfterConfirmation ==
    [][ /\ ( /\ OnlyMessages
             /\ \/ CreateMessageStart(99)
                \/ \E messageId \in EditedIds :
                      UpdateMessageStart(messageId) \/ DeleteMessageStart(messageId)
                \/ \E newMsg \in MessagesOf(99) : CreateMessageResponse(99, FALSE, newMsg)
                \/ \E messageId \in EditedIds :
                      \/ DeleteMessageResponse(messageId, FALSE)
                      \/ \E updatedMsg \in {m \in ServerMessages : m.message_id = messageId} :
                            UpdateMessageResponse(messageId, FALSE, updatedMsg) )
              => messagesByChannel' = messagesByChannel
        /\ ( /\ OnlyChannels
             /\ \/ \E name \in ChannelNames : CreateChannelStart(name, "private")
                \/ UpdateChannelStart(10)
                \/ \E ok \in BOOLEAN : CreateChannelPosted(ok, 10)
                \/ \E channelDetails \in ServerChannels(10) :
                      CreateChannelDetails(FALSE, channelDetails)
                \/ \E updated \in ServerChannels(10) : UpdateChannelResponse(10, FALSE, updated) )
              => channels' = channels
        /\ \A newMsg \in MessagesOf(99) :
              (CreateMessageResponse(99, TRUE, newMsg) /\ OnlyMessages) =>
                 /\ messagesByChannel'[99] = Append(Bucket(99), newMsg)
                 /\ \A c \in DOMAIN messagesByChannel \ {99} :
                       messagesByChannel'[c] = messagesByChannel[c]
                 /\ DOMAIN messagesByChannel' = DOMAIN messagesByChannel \cup {99}
      ]_vars

\* Channel 99 holds a confirmed message while a second createMessage and a
\* createChannel, whose POST was confirmed, are still pending: neither has
\* written anything.
C18_Witness ==
    /\ Bucket(99) = <<Msg(101, "Hello there")>>
    /\ [op |-> "createMessage", channelId |-> 99, messageId |-> 0] \in pendingMessages
    /\ [op |-> "createChannel", stage |-> 2, channel_id |-> 10] \in pendingChannels
    /\ channels = EmptyMap

(***************************************************************************)
(* The pushed message events and the pushed reaction events (on message    *)
(* 101) on the store.                                                      *)
(***************************************************************************)
NextEvents ==
    \/ /\ \/ \E message \in ServerMessages : HandleMessageCreated(message)
          \/ \E message \in ServerMessages : HandleMessageUpdated(message)
          \/ \E messageId \in MessageIds, channelId \in MessageChannels :
                HandleMessageDeleted(messageId, channelId)
       /\ OnlyMessages
    \/ /\ \E emoji \in Emojis, user_id \in ReactionUsers :
             \/ HandleReactionAdded(101, emoji, user_id)
             \/ HandleReactionRemoved(101, emoji, user_id)
       /\ OnlyReactions

SpecEvents == InitFresh /\ [][NextEvents]_vars

\* Both entity maps are left as they are.
EntitiesUnchanged == UNCHANGED <<messagesByChannel, reactionsByMessage>>

(***************************************************************************)
(* C21 (as stated).  Each of handleMessageCreated, handleMessageUpdated,   *)
(* handleMessageDeleted, handleReactionAdded and handleReactionRemoved,    *)
(* called for a channel or message that has no bucket in the store,        *)
(* returns and leaves messagesByChannel and reactionsByMessage unchanged.  *)
(***************************************************************************)
C21_UnknownKeyNoOp ==
    [][ /\ \A message \in ServerMessages :
              /\ (HandleMessageCreated(message) /\ OnlyMessages
                    /\ ~Has(messagesByChannel, message.channel_id))
                  => (EntitiesUnchanged /\ lastCall' = Returned("handleMessageCreated"))
              /\ (HandleMessageUpdated(message) /\ OnlyMessages
                    /\ ~Has(messagesByChannel, message.channel_id))
                  => (EntitiesUnchanged /\ lastCall' = Returned("handleMessageUpdated"))
        /\ \A messageId \in MessageIds, channelId \in MessageChannels :
              (HandleMessageDeleted(messageId, channelId) /\ OnlyMessages
                    /\ ~Has(messagesByChannel, channelId))
                  => (EntitiesUnchanged /\ lastCall' = Returned("handleMessageDeleted"))
        /\ \A emoji \in Emojis, user_id \in ReactionUsers :
              /\ (HandleReactionAdded(101, emoji, user_id) /\ OnlyReactions
                    /\ ~Has(reactionsByMessage, 101))
                  => (EntitiesUnchanged /\ lastCall' = Returned("handleReactionAdded"))
              /\ (HandleReactionRemoved(101, emoji, user_id) /\ OnlyReactions
                    /\ ~Has(reactionsByMessage, 101))
                  => (EntitiesUnchanged /\ lastCall' = Returned("handleReactionRemoved"))
      ]_vars

(***************************************************************************)
(* C21 (amended).  Called for a channel or message that has no bucket,     *)
(* handleMessageUpdated, handleMessageDeleted and handleReactionRemoved    *)
(* return and leave both maps unchanged; handleMessageCreated returns and  *)
(* creates the channel's bucket holding exactly the message;               *)
(* handleReactionAdded returns and creates the message's list holding      *)
(* exactly the aggregate [emoji, count 1, users <<user_id>>].  Every other *)
(* bucket is unchanged.                                                    *)
(***************************************************************************)
C21_UnknownKeyAmended ==
    [][ /\ \A message \in ServerMessages :
              /\ (HandleMessageCreated(message) /\ OnlyMessages
                    /\ ~Has(messagesByChannel, message.channel_id))
                  => /\ messagesByChannel' =
                          Put(messagesByChannel, message.channel_id, <<message>>)
                     /\ UNCHANGED reactionsByMessage
                     /\ lastCall' = Returned("handleMessageCreated")
              /\ (HandleMessageUpdated(message) /\ OnlyMessages
                    /\ ~Has(messagesByChannel, message.channel_id))
                  => (EntitiesUnchanged /\ lastCall' = Returned("handleMessageUpdated"))
        /\ \A messageId \in MessageIds, channelId \in MessageChannels :
              (HandleMessageDeleted(messageId, channelId) /\ OnlyMessages
                    /\ ~Has(messagesByChannel, channelId))
                  => (EntitiesUnchanged /\ lastCall' = Returned("handleMessageDeleted"))
        /\ \A emoji \in Emojis, user_id \in ReactionUsers :
              /\ (HandleReactionAdded(101, emoji, user_id) /\ OnlyReactions
                    /\ ~Has(reactionsByMessage, 101))
                  => /\ reactionsByMessage' =
                          Put(reactionsByMessage, 101,
                              <<[emoji |-> emoji, count |-> 1, users |-> <<user_id>>]>>)
                     /\ UNCHANGED messagesByChannel
                     /\ lastCall' = Returned("handleReactionAdded")
              /\ (HandleReactionRemoved(101, emoji, user_id) /\ OnlyReactions
                    /\ ~Has(reactionsByMessage, 101))
                  => (EntitiesUnchanged /\ lastCall' = Returned("handleReactionRemoved"))
      ]_vars

\* handleMessageDeleted has just returned for a channel without a bucket:
\* channel 99 has a bucket (made by handleMessageCreated), channel 98 and
\* message 101 still have none.
C21_Witness ==
    /\ lastCall = Returned("handleMessageDeleted")
    /\ DOMAIN messagesByChannel = {99}
    /\ Len(messagesByChannel[99]) = 1
    /\ reactionsByMessage = EmptyMap

(***************************************************************************)
(* The session operations together with the presence operations: presence  *)
(* events arrive while a session is opened and ended.                       *)
(***************************************************************************)
NextSession ==
    \/ NextAuth
    \/ /\ \/ \E user \in PresenceUsers, online \in BOOLEAN : UpdatePresence(user, online)
          \/ ResetPresence
       /\ OnlyPresence

SpecSession == InitAuth /\ [][NextSession]_vars

\* A step that ends the session: logout itself, or the logout() that a
\* failed refreshTokens or verifyToken calls.
SessionEnds ==
    /\ \/ Logout
       \/ refresh_token = NULL /\ RefreshTokensStart
       \/ \E access_token \in AccessTokens, data_refresh_token \in RefreshTokens \cup {NULL} :
             RefreshTokensResponse(FALSE, access_token, data_refresh_token)
       \/ accessToken = NULL /\ VerifyTokenStart
       \/ \E user_id \in SessionUsers : VerifyTokenResponse("not_ok", user_id)
    /\ OnlyAuth

(***************************************************************************)
(* C22.  In every state reached by a logout (explicit, or forced by a      *)
(* failed refreshTokens or verifyToken), onlineUsers is the empty map.     *)
(***************************************************************************)
C22_PresenceResetAtSessionEnd ==
    [][ SessionEnds => onlineUsers' = EmptyMap ]_vars

(***************************************************************************)
(* C23.  After any sequence of page fetches for a channel (including a     *)
(* page that overlaps messages already held), the message list contains no *)
(* two entries with the same message_id.                                   *)
(***************************************************************************)
C23_WindowHasNoDuplicates ==
    \A i, j \in 1..Len(messages) :
        messages[i].message_id = messages[j].message_id => i = j

(***************************************************************************)
(* C24.  Each channel's list in messagesByChannel is ordered by created_at *)
(* ascending in every reachable state (every fetched page is sorted),      *)
(* whatever the order in which confirmations and pushed events arrive.     *)
(***************************************************************************)
C24_BucketsOrderedByCreatedAt ==
    \A channelId \in DOMAIN messagesByChannel :
        IsSortedByCreatedAt(messagesByChannel[channelId])

(***************************************************************************)
(* C25.  message_id is unique within each channel bucket in every          *)
(* reachable state: for any interleaving of a createMessage confirmation   *)
(* and the pushed handleMessageCreated broadcast of the same message, the  *)
(* bucket contains that message_id exactly once.                           *)
(***************************************************************************)
C25_MessageIdUniqueInBucket ==
    \A channelId \in DOMAIN messagesByChannel :
        \A i, j \in 1..Len(messagesByChannel[channelId]) :
            messagesByChannel[channelId][i].message_id =
               messagesByChannel[channelId][j].message_id => i = j

(***************************************************************************)
(* Requests that a logout overtakes: login, verify2FA and refreshTokens    *)
(* are started, logout runs, and until the next response is processed no   *)
(* new request is started.  In a state whose last completed call is        *)
(* logout, every request in flight was therefore in flight when that       *)
(* logout ran.                                                             *)
(***************************************************************************)
NextLateResponse ==
    /\ \/ lastCall # Returned("logout") /\ LoginStart
       \/ lastCall # Returned("logout") /\ Verify2FAStart
       \/ lastCall # Returned("logout") /\ RefreshTokensStart
       \/ Logout
       \/ \E outcome \in LoginFailures \cup {"temp_token", "access_token", "empty"},
             access_token \in AccessTokens, user_id \in SessionUsers,
             data_refresh_token \in RefreshTokens \cup {NULL} :
             LoginResponse(outcome, access_token, user_id, data_refresh_token)
       \/ \E ok \in BOOLEAN, access_token \in AccessTokens,
             data_refresh_token \in RefreshTokens \cup {NULL} :
             Verify2FAResponse(ok, access_token, data_refresh_token)
       \/ \E ok \in BOOLEAN, access_token \in AccessTokens,
             data_refresh_token \in RefreshTokens \cup {NULL} :
             RefreshTokensResponse(ok, access_token, data_refresh_token)
    /\ OnlyAuth

SpecLateResponse == InitAuth /\ [][NextLateResponse]_vars

(***************************************************************************)
(* C26.  If login, verify2FA or refreshTokens is in flight when logout     *)
(* runs, then after its response is processed the session is still         *)
(* unauthenticated (accessToken null, isAuthenticated false) and no        *)
(* refresh token is persisted.                                             *)
(***************************************************************************)
C26_LateResponseStaysLoggedOut ==
    [][ (/\ lastCall = Returned("logout")
         /\ \E req \in pendingAuth :
               /\ req.op \in {"login", "verify2FA", "refreshTokens"}
               /\ pendingAuth' = pendingAuth \ {req})
        => (/\ accessToken' = NULL
            /\ isAuthenticated' = FALSE
            /\ refresh_token' = NULL)
      ]_vars

(***************************************************************************)
(* C27.  The displayed message list only ever holds messages of the        *)
(* currently selected channel: a late response for a channel selected      *)
(* earlier is not merged into the list shown for the current one.          *)
(***************************************************************************)
C27_WindowShowsCurrentChannel ==
    \A i \in 1..Len(messages) : messages[i].channel_id = currentChannel

(***************************************************************************)
(* C28.  In every reachable state isAuthenticated is true if and only if   *)
(* accessToken is non-null (every successful login, verify2FA and refresh  *)
(* response carries an access token), across login, verify2FA,             *)
(* refreshTokens, verifyToken and logout in any order.                     *)
(***************************************************************************)
C28_AuthenticatedIffAccessToken ==
    isAuthenticated <=> accessToken # NULL

(***************************************************************************)
(* C29.  Whenever the session is authenticated, userId is non-null, on     *)
(* every path to the authenticated state (direct login, login followed by  *)
(* verify2FA, refreshTokens after a reload).                               *)
(***************************************************************************)
C29_AuthenticatedHasUserId ==
    isAuthenticated => userId # NoUser

(***************************************************************************)
(* The members slice of a logged-in session, with member fetches that a    *)
(* clearChannelMembers overtakes: until the next response is processed, no *)
(* fetch is started after a clear.  In a state whose last completed call   *)
(* is clearChannelMembers, every fetch in flight was therefore in flight   *)
(* when the clear ran.                                                     *)
(***************************************************************************)
NextEviction ==
    \/ /\ \/ LoginStart
          \/ LoginResponse("access_token", "FAKE_ACCESS_TOKEN", 5, NULL)
          \/ Logout
       /\ OnlyAuth
    \/ /\ \/ /\ lastCall.op # "clearChannelMembers"
             /\ \E channelId \in MemberChannels : FetchChannelMembersStart(channelId)
          \/ \E channelId \in MemberChannels, ok \in BOOLEAN, data \in MemberLists :
                FetchChannelMembersResponse(channelId, ok, data)
          \/ \E channelId \in MemberChannels : ClearChannelMembers(channelId)
       /\ OnlyMembers

SpecEviction == InitFresh /\ [][NextEviction]_vars

(***************************************************************************)
(* C30.  After clearChannelMembers(c), membersByChannel has no entry for c *)
(* until a fetchChannelMembers(c) that is started after the clear          *)
(* succeeds, even if a fetchChannelMembers(c) was in flight when the clear *)
(* ran; entries of other channels are never changed by either operation.   *)
(***************************************************************************)
C30_ClearNotUndoneByEarlierFetch ==
    [][ /\ lastCall.op = "clearChannelMembers" => ~Has(membersByChannel', lastCall.channelId)
        /\ \A c \in MemberChannels :
              (/\ \/ \E ok \in BOOLEAN, data \in MemberLists :
                        FetchChannelMembersResponse(c, ok, data)
                  \/ ClearChannelMembers(c)
               /\ OnlyMembers)
              => \A other \in MemberChannels \ {c} :
                    /\ Has(membersByChannel', other) <=> Has(membersByChannel, other)
                    /\ Has(membersByChannel, other) =>
                          membersByChannel'[other] = membersByChannel[other]
      ]_vars

====
